---- MODULE Spec2Model ----
(***************************************************************************)
(* A model of sudoku_solver.py: reading a 9x9 grid from standard input,    *)
(* validating it, and the recursive MRV backtracking search, written as a  *)
(* state machine with an explicit call stack.                              *)
(*                                                                         *)
(* Python values are represented as follows.  A list is a sequence, so     *)
(* grid[r][c] of the source is grid[r + 1][c + 1] here (operator At).  An  *)
(* Optional value is a set with at most one element: {} stands for None.   *)
(* A text line is a sequence of one-character strings.                     *)
(***************************************************************************)
EXTENDS Integers, Sequences, FiniteSets, TLC

VARIABLES
    stdin,       \* the lines of standard input not yet consumed
    lines,       \* read_grid_from_stdin: the rows accepted so far
    stdin_grid,  \* main: the result of read_grid_from_stdin ({} is None)
    GRID,        \* main: the puzzle
    work,        \* main: the copy the search mutates in place
    stack,       \* the active solve frames, outermost first
    ret,         \* the value returned by the solve call that ended last
    last,        \* the frame of the solve call that ended last
    pc,          \* the position of main
    out,         \* the headings printed so far
    status,      \* the exit status of the process (-1 while it runs)
    searched     \* whether solve has been called

vars == <<stdin, lines, stdin_grid, GRID, work, stack, ret, last, pc, out,
          status, searched>>

N == 9
B == 3

Idx == 0 .. (N - 1)

At(grid, r, c) == grid[r + 1][c + 1]

----------------------------------------------------------------------------
(* Text: str.strip, str.replace, str.split, str.isdigit and int.           *)

DigitChars == <<"0", "1", "2", "3", "4", "5", "6", "7", "8", "9">>

IsSpace(ch) == ch \in {" ", "\t", "\n"}

isdigit(ch) == \E i \in 1 .. 10 : DigitChars[i] = ch

DigitVal(ch) == (CHOOSE i \in 1 .. 10 : DigitChars[i] = ch) - 1

\* str.strip(): s without its leading and trailing whitespace.
Between[s \in Seq(STRING), keep \in SUBSET Nat] ==
    IF keep = {}
    THEN <<>>
    ELSE SubSeq(s, CHOOSE i \in keep : \A j \in keep : i <= j,
                   CHOOSE i \in keep : \A j \in keep : j <= i)

strip(s) == Between[s, {i \in 1 .. Len(s) : ~IsSpace(s[i])}]

\* line.replace(",", " ")
replace(s) == [i \in 1 .. Len(s) |-> IF s[i] = "," THEN " " ELSE s[i]]

\* str.split() with no separator: the maximal runs of non-whitespace.
\* split_from[s, cur, acc]: the tokens of s after the tokens acc and the
\* characters cur of the token being read.
split_from[s \in Seq(STRING), cur \in Seq(STRING), acc \in Seq(Seq(STRING))] ==
    IF s = <<>>
    THEN IF cur = <<>> THEN acc ELSE Append(acc, cur)
    ELSE IF IsSpace(Head(s))
         THEN split_from[Tail(s), <<>>,
                         IF cur = <<>> THEN acc ELSE Append(acc, cur)]
         ELSE split_from[Tail(s), Append(cur, Head(s)), acc]

split(s) == split_from[s, <<>>, <<>>]

RECURSIVE DecimalValue(_)
DecimalValue(ds) ==
    IF ds = <<>>
    THEN 0
    ELSE 10 * DecimalValue(SubSeq(ds, 1, Len(ds) - 1)) + DigitVal(ds[Len(ds)])

AllDigits(s) == \A i \in 1 .. Len(s) : isdigit(s[i])

\* int(x) on a token without whitespace: an optional sign and at least one
\* decimal digit; anything else raises ValueError, which is {} here.
int(tok) ==
    LET signed == tok # <<>> /\ Head(tok) \in {"+", "-"}
        ds == IF signed THEN Tail(tok) ELSE tok
    IN  IF ds = <<>> \/ ~AllDigits(ds)
        THEN {}
        ELSE {IF signed /\ Head(tok) = "-"
              THEN 0 - DecimalValue(ds)
              ELSE DecimalValue(ds)}

----------------------------------------------------------------------------
(* The grid helpers and the candidate engine.                              *)

SeqRange(s) == {s[i] : i \in 1 .. Len(s)}

row_vals(grid, r) == SeqRange(grid[r + 1]) \ {0}

col_vals(grid, c) == {At(grid, r, c) : r \in Idx} \ {0}

box_vals(grid, r, c) ==
    LET br == (r \div B) * B
        bc == (c \div B) * B
    IN  {At(grid, rr, cc) : rr \in br .. (br + B - 1),
                            cc \in bc .. (bc + B - 1)} \ {0}

\* A variant of candidates that leaves the box out.
candidates_no_box(grid, r, c) ==
    IF At(grid, r, c) # 0
    THEN {}
    ELSE (1 .. N) \ (row_vals(grid, r) \cup col_vals(grid, c))

candidates(grid, r, c) ==
    IF At(grid, r, c) # 0
    THEN {}
    ELSE LET used == row_vals(grid, r) \cup col_vals(grid, c)
                       \cup box_vals(grid, r, c)
         IN  (1 .. N) \ used

\* The locals of find_mrv_cell: best (None is {}), best_cands, and whether
\* a return statement inside the loops has been executed.
ScanStates ==
    [best : SUBSET (Idx \X Idx), best_cands : SUBSET (1 .. N),
     returned : BOOLEAN]

\* The body of the inner loop at the cell (r, c).
mrv_visit(grid, r, c, st) ==
    IF At(grid, r, c) # 0
    THEN st
    ELSE LET cands == candidates(grid, r, c)
         IN  IF cands = {}
             THEN [best |-> {<<r, c>>}, best_cands |-> {}, returned |-> TRUE]
             ELSE IF st.best = {}
                     \/ Cardinality(cands) < Cardinality(st.best_cands)
                  THEN [best |-> {<<r, c>>}, best_cands |-> cands,
                        returned |-> Cardinality(cands) = 1]
                  ELSE st

\* for c in range(9), from column c on.
mrv_cols[grid \in Seq(Seq(Int)), r \in Idx, c \in 0 .. N, st \in ScanStates] ==
    IF st.returned \/ c = N
    THEN st
    ELSE mrv_cols[grid, r, c + 1, mrv_visit(grid, r, c, st)]

\* for r in range(9), from row r on.
mrv_rows[grid \in Seq(Seq(Int)), r \in 0 .. N, st \in ScanStates] ==
    IF st.returned \/ r = N
    THEN st
    ELSE mrv_rows[grid, r + 1, mrv_cols[grid, r, 0, st]]

\* The value returned: None is {}, a triple (r, c, cands) is {<<r, c, cands>>}.
mrv_return[st \in ScanStates] ==
    {<<b[1], b[2], st.best_cands>> : b \in st.best}

\* A variant of find_mrv_cell without the heuristic: the first empty cell in
\* row-major order.
first_empty_cell(grid) ==
    LET E == {k \in 0 .. (N * N - 1) : At(grid, k \div N, k % N) = 0}
    IN  IF E = {}
        THEN {}
        ELSE LET k == CHOOSE x \in E : \A y \in E : x <= y
             IN  {<<k \div N, k % N, candidates(grid, k \div N, k % N)>>}

find_mrv_cell(grid) ==
    mrv_return[mrv_rows[grid, 0, [best |-> {}, best_cands |-> {},
                                  returned |-> FALSE]]]

\* len(vals) != len(set(vals)) for the list of the nonzero values of a unit.
Repeats(unit) ==
    LET vals == SelectSeq(unit, LAMBDA v : v # 0)
    IN  Len(vals) # Cardinality(SeqRange(vals))

BoxUnit(grid, br, bc) ==
    [k \in 1 .. (B * B) |->
        At(grid, br + ((k - 1) \div B), bc + ((k - 1) % B))]

\* A variant of is_valid_grid without the loop over the boxes.
is_valid_grid_no_box(grid) ==
    /\ \A r \in Idx : ~Repeats(grid[r + 1])
    /\ \A c \in Idx : ~Repeats([k \in 1 .. N |-> At(grid, k - 1, c)])

is_valid_grid(grid) ==
    /\ \A r \in Idx : ~Repeats(grid[r + 1])
    /\ \A c \in Idx : ~Repeats([k \in 1 .. N |-> At(grid, k - 1, c)])
    /\ \A br \in {0, 3, 6} : \A bc \in {0, 3, 6} :
          ~Repeats(BoxUnit(grid, br, bc))

\* sorted(cands)
RECURSIVE sorted(_)
sorted(S) ==
    IF S = {}
    THEN <<>>
    ELSE LET m == CHOOSE x \in S : \A y \in S : x <= y
         IN  <<m>> \o sorted(S \ {m})

copy_grid(g) == [r \in 1 .. Len(g) |-> [c \in 1 .. Len(g[r]) |-> g[r][c]]]

\* A variant of the cell write with the indices exchanged: grid[c][r] = d
SetCellTransposed(grid, r, c, d) ==
    [grid EXCEPT ![c + 1] = [grid[c + 1] EXCEPT ![r + 1] = d]]

\* grid[r][c] = d
SetCell(grid, r, c, d) ==
    [grid EXCEPT ![r + 1] = [grid[r + 1] EXCEPT ![c + 1] = d]]

\* The example puzzle of main.
DefaultGRID ==
    << <<5, 3, 0, 0, 7, 0, 0, 0, 0>>,
       <<6, 0, 0, 1, 9, 5, 0, 0, 0>>,
       <<0, 9, 8, 0, 0, 0, 0, 6, 0>>,
       <<8, 0, 0, 0, 6, 0, 0, 0, 3>>,
       <<4, 0, 0, 8, 0, 3, 0, 0, 1>>,
       <<7, 0, 0, 0, 2, 0, 6, 0, 0>>,
       <<0, 6, 0, 0, 0, 0, 2, 8, 0>>,
       <<0, 0, 0, 4, 1, 9, 0, 0, 5>>,
       <<0, 0, 0, 0, 8, 0, 0, 7, 9>> >>

----------------------------------------------------------------------------
(* The inputs: texts on standard input.  A text is a puzzle written in one *)
(* of the accepted forms, or a malformed text.  The puzzles are two base   *)
(* grids changed in at most MaxEdits cells.                                *)

MaxEdits == 2

\* A completed grid.
Solution ==
    << <<5, 3, 4, 6, 7, 8, 9, 1, 2>>,
       <<6, 7, 2, 1, 9, 5, 3, 4, 8>>,
       <<1, 9, 8, 3, 4, 2, 5, 6, 7>>,
       <<8, 5, 9, 7, 6, 1, 4, 2, 3>>,
       <<4, 2, 6, 8, 5, 3, 7, 9, 1>>,
       <<7, 1, 3, 9, 2, 4, 8, 5, 6>>,
       <<9, 6, 1, 5, 3, 7, 2, 8, 4>>,
       <<2, 8, 7, 4, 1, 9, 6, 3, 5>>,
       <<3, 4, 5, 2, 8, 6, 1, 7, 9>> >>

\* Solution with 44 cells emptied: the search has to branch and to undo.
Puzzle ==
    << <<0, 3, 0, 6, 0, 8, 0, 1, 2>>,
       <<6, 0, 2, 1, 0, 5, 3, 0, 0>>,
       <<0, 0, 8, 0, 0, 2, 0, 0, 0>>,
       <<8, 5, 0, 0, 6, 0, 4, 0, 0>>,
       <<4, 2, 6, 0, 0, 0, 7, 0, 0>>,
       <<0, 1, 0, 0, 2, 4, 8, 5, 6>>,
       <<0, 6, 0, 5, 3, 0, 2, 0, 0>>,
       <<2, 0, 0, 4, 0, 0, 6, 0, 0>>,
       <<0, 0, 5, 2, 8, 6, 0, 0, 0>> >>

Bases == {Solution, Puzzle}

\* <<r, c, v>>: write v to cell (r, c).
Edits ==
    << <<0, 0, 1>>, <<0, 1, 5>>, <<0, 4, 5>>, <<2, 2, 10>>, <<3, 6, 0 - 1>>,
       <<0, 8, 5>>, <<3, 0, 3>>, <<4, 6, 0>> >>

RECURSIVE ApplyEdits(_, _)
ApplyEdits(g, E) ==
    IF E = {}
    THEN g
    ELSE LET i == CHOOSE x \in E : \A y \in E : x <= y
             e == Edits[i]
         IN  ApplyEdits(SetCell(g, e[1], e[2], e[3]), E \ {i})

InputGrids ==
    {ApplyEdits(b, E) : b \in Bases,
                        E \in {X \in SUBSET (1 .. Len(Edits)) :
                                  Cardinality(X) <= MaxEdits}}

\* str(v) for -9 <= v <= 99
ToStr(v) ==
    IF v < 0
    THEN <<"-", DigitChars[1 - v]>>
    ELSE IF v < 10
         THEN <<DigitChars[v + 1]>>
         ELSE <<DigitChars[(v \div 10) + 1], DigitChars[(v % 10) + 1]>>

RECURSIVE Join(_, _)
Join(toks, sep) ==
    IF toks = <<>>
    THEN <<>>
    ELSE IF Len(toks) = 1
         THEN toks[1]
         ELSE toks[1] \o sep \o Join(Tail(toks), sep)

RowTokens(row) == [i \in 1 .. Len(row) |-> ToStr(row[i])]

Formats == {"space", "comma", "commaspace", "tight", "plus", "padded"}

RowText(row, fmt) ==
    CASE fmt = "space"      -> Join(RowTokens(row), <<" ">>) \o <<"\n">>
      [] fmt = "comma"      -> Join(RowTokens(row), <<",">>) \o <<"\n">>
      [] fmt = "commaspace" -> Join(RowTokens(row), <<",", " ">>) \o <<"\n">>
      [] fmt = "tight"      -> Join(RowTokens(row), <<>>) \o <<"\n">>
      [] fmt = "plus"       ->
            Join([i \in 1 .. Len(row) |-> <<"+">> \o ToStr(row[i])], <<" ">>)
                \o <<"\n">>
      [] fmt = "padded"     ->
            <<" ", "\t">> \o Join(RowTokens(row), <<" ", " ">>)
                \o <<" ", "\n">>

Text(g, fmt) == [r \in 1 .. Len(g) |-> RowText(g[r], fmt)]

\* Lines the reader skips: an empty line, a line of a wrong shape.
BlankLine == <<"\n">>
ShortLine == <<"1", " ", "2", " ", "3", "\n">>
WordLine == <<"s", "u", "d", "o", "k", "u", "\n">>

\* Nine tokens, one of them no number.
BadTokenLine == Join([i \in 1 .. N |-> IF i = 4 THEN <<"x">> ELSE <<"0">>],
                     <<" ">>) \o <<"\n">>

Interleave(t, line) ==
    [i \in 1 .. (2 * Len(t)) |-> IF i % 2 = 1 THEN line ELSE t[i \div 2]]

FormattedGrids == {Puzzle, ApplyEdits(Puzzle, {4}), ApplyEdits(Puzzle, {5})}

Texts ==
    {Text(g, "space") : g \in InputGrids}
      \cup {Text(g, fmt) : g \in FormattedGrids, fmt \in Formats}
      \cup {Interleave(Text(Puzzle, "space"), l) :
               l \in {BlankLine, ShortLine, WordLine}}
      \cup {<<>>,
            SubSeq(Text(Puzzle, "space"), 1, N - 1),
            SubSeq(Text(Puzzle, "tight"), 1, 4) \o <<BadTokenLine>>
                \o SubSeq(Text(Puzzle, "tight"), 5, N),
            Text(Solution, "comma") \o Text(Puzzle, "space"),
            <<Text(Puzzle, "space")[1]>> \o Text(Solution, "tight")}

----------------------------------------------------------------------------
(* The state machine.                                                      *)

\* A solve frame: nxt is the result of find_mrv_cell, todo the digits the
\* loop has still to try, pc the position ("mrv": find_mrv_cell has
\* returned; "loop": at the head of the for loop; "rec": in the recursive
\* call or just back from it).  entry (the grid when the call was entered)
\* and tried (the number of digits assigned so far) are history variables.
NoFrame == [nxt |-> {}, todo |-> <<>>, pc |-> "none", entry |-> <<>>,
            tried |-> 0]

Top == stack[Len(stack)]

Pop == SubSeq(stack, 1, Len(stack) - 1)

TheOne(S) == CHOOSE x \in S : TRUE

CellR(f) == TheOne(f.nxt)[1]
CellC(f) == TheOne(f.nxt)[2]
Cands(f) == TheOne(f.nxt)[3]

Init ==
    /\ stdin \in Texts
    /\ lines = <<>>
    /\ stdin_grid = {}
    /\ GRID = DefaultGRID
    /\ work = <<>>
    /\ stack = <<>>
    /\ ret = "none"
    /\ last = NoFrame
    /\ pc = "read"
    /\ out = <<>>
    /\ status = 0 - 1
    /\ searched = FALSE

\* One iteration of the for loop of read_grid_from_stdin.
ReadLine ==
    /\ pc = "read"
    /\ stdin # <<>>
    /\ Len(lines) < N
    /\ stdin' = Tail(stdin)
    /\ \E line \in {strip(Head(stdin))} :
       \E parts \in {split(replace(line))} :
       \E vals \in {[i \in 1 .. Len(parts) |-> int(parts[i])]} :
           IF line = <<>>
           THEN UNCHANGED <<lines, stdin_grid, pc>>
           ELSE IF Len(parts) = N
                THEN IF \E i \in 1 .. N : vals[i] = {}
                     THEN /\ stdin_grid' = {}
                          /\ pc' = "main"
                          /\ UNCHANGED lines
                     ELSE /\ lines' = Append(lines,
                                        [i \in 1 .. N |-> TheOne(vals[i])])
                          /\ UNCHANGED <<stdin_grid, pc>>
                ELSE IF Len(line) = N /\ AllDigits(line)
                     THEN /\ lines' = Append(lines,
                                        [i \in 1 .. N |-> DigitVal(line[i])])
                          /\ UNCHANGED <<stdin_grid, pc>>
                     ELSE UNCHANGED <<lines, stdin_grid, pc>>
    /\ UNCHANGED <<GRID, work, stack, ret, last, out, status, searched>>

\* The loop of read_grid_from_stdin has ended: by break, or at end of input.
ReadReturn ==
    /\ pc = "read"
    /\ IF stdin = <<>> THEN TRUE ELSE Len(lines) = N
    /\ stdin_grid' = IF Len(lines) = N THEN {lines} ELSE {}
    /\ pc' = "main"
    /\ UNCHANGED <<stdin, lines, GRID, work, stack, ret, last, out, status,
                   searched>>

\* main: if stdin_grid: GRID = stdin_grid
UseGrid ==
    /\ pc = "main"
    /\ GRID' = IF stdin_grid # {} THEN TheOne(stdin_grid) ELSE GRID
    /\ pc' = "validate"
    /\ UNCHANGED <<stdin, lines, stdin_grid, work, stack, ret, last, out,
                   status, searched>>

\* A variant of the validity gate without sys.exit(1): the rejection is
\* printed and main goes on.
ValidateNoExit ==
    /\ pc = "validate"
    /\ out' = IF ~is_valid_grid(GRID)
              THEN <<"Invalid puzzle (duplicates in row/col/box).", "Input:">>
              ELSE <<"Input:">>
    /\ work' = copy_grid(GRID)
    /\ pc' = "solve"
    /\ UNCHANGED <<stdin, lines, stdin_grid, GRID, stack, ret, last, status,
                   searched>>

\* main: the validity gate, and the copy the search works on.
Validate ==
    /\ pc = "validate"
    /\ IF ~is_valid_grid(GRID)
       THEN /\ out' = Append(out, "Invalid puzzle (duplicates in row/col/box).")
            /\ status' = 1
            /\ pc' = "done"
            /\ UNCHANGED work
       ELSE /\ out' = Append(out, "Input:")
            /\ work' = copy_grid(GRID)
            /\ pc' = "solve"
            /\ UNCHANGED status
    /\ UNCHANGED <<stdin, lines, stdin_grid, GRID, stack, ret, last, searched>>

\* solve is entered (from main, or from the loop of the frame on top) and
\* calls find_mrv_cell.
Call ==
    /\ pc = "solve"
    /\ ret = "none"
    /\ IF stack = <<>> THEN TRUE ELSE Top.pc = "rec"
    /\ stack' = Append(stack, [nxt |-> find_mrv_cell(work), todo |-> <<>>,
                               pc |-> "mrv", entry |-> work, tried |-> 0])
    /\ searched' = TRUE
    /\ UNCHANGED <<stdin, lines, stdin_grid, GRID, work, ret, last, pc, out,
                   status>>

\* if nxt is None: return True
Solved ==
    /\ stack # <<>>
    /\ Top.pc = "mrv"
    /\ Top.nxt = {}
    /\ ret' = "True"
    /\ last' = Top
    /\ stack' = Pop
    /\ UNCHANGED <<stdin, lines, stdin_grid, GRID, work, pc, out, status,
                   searched>>

\* if not cands: return False
DeadEnd ==
    /\ stack # <<>>
    /\ Top.pc = "mrv"
    /\ Top.nxt # {}
    /\ Cands(Top) = {}
    /\ ret' = "False"
    /\ last' = Top
    /\ stack' = Pop
    /\ UNCHANGED <<stdin, lines, stdin_grid, GRID, work, pc, out, status,
                   searched>>

\* for d in sorted(cands): the loop is entered
EnterLoop ==
    /\ stack # <<>>
    /\ Top.pc = "mrv"
    /\ Top.nxt # {}
    /\ Cands(Top) # {}
    /\ stack' = [stack EXCEPT ![Len(stack)].todo = sorted(Cands(Top)),
                              ![Len(stack)].pc = "loop"]
    /\ UNCHANGED <<stdin, lines, stdin_grid, GRID, work, ret, last, pc, out,
                   status, searched>>

\* A variant of the loop step that never advances to the next digit.
AssignSameDigit ==
    /\ stack # <<>>
    /\ Top.pc = "loop"
    /\ Top.todo # <<>>
    /\ work' = SetCell(work, CellR(Top), CellC(Top), Head(Top.todo))
    /\ stack' = [stack EXCEPT ![Len(stack)].pc = "rec"]
    /\ UNCHANGED <<stdin, lines, stdin_grid, GRID, ret, last, pc, out, status,
                   searched>>

\* grid[r][c] = d, for the next digit d
Assign ==
    /\ stack # <<>>
    /\ Top.pc = "loop"
    /\ Top.todo # <<>>
    /\ work' = SetCell(work, CellR(Top), CellC(Top), Head(Top.todo))
    /\ stack' = [stack EXCEPT ![Len(stack)].todo = Tail(Top.todo),
                              ![Len(stack)].pc = "rec",
                              ![Len(stack)].tried = Top.tried + 1]
    /\ UNCHANGED <<stdin, lines, stdin_grid, GRID, ret, last, pc, out, status,
                   searched>>

\* if solve(grid): return True
Propagate ==
    /\ stack # <<>>
    /\ Top.pc = "rec"
    /\ ret = "True"
    /\ last' = Top
    /\ stack' = Pop
    /\ UNCHANGED <<stdin, lines, stdin_grid, GRID, work, ret, pc, out, status,
                   searched>>

\* A variant of the undo that leaves the digit in the cell.
UndoKeepsDigit ==
    /\ stack # <<>>
    /\ Top.pc = "rec"
    /\ ret = "False"
    /\ ret' = "none"
    /\ stack' = [stack EXCEPT ![Len(stack)].pc = "loop"]
    /\ UNCHANGED <<stdin, lines, stdin_grid, GRID, work, last, pc, out,
                   status, searched>>

\* A variant of the undo that gives the cell up after the first failed digit.
UndoGivesUp ==
    /\ stack # <<>>
    /\ Top.pc = "rec"
    /\ ret = "False"
    /\ work' = SetCell(work, CellR(Top), CellC(Top), 0)
    /\ ret' = "none"
    /\ stack' = [stack EXCEPT ![Len(stack)].pc = "loop",
                              ![Len(stack)].todo = <<>>]
    /\ UNCHANGED <<stdin, lines, stdin_grid, GRID, last, pc, out, status,
                   searched>>

\* grid[r][c] = 0, after the recursive call returned False
Undo ==
    /\ stack # <<>>
    /\ Top.pc = "rec"
    /\ ret = "False"
    /\ work' = SetCell(work, CellR(Top), CellC(Top), 0)
    /\ ret' = "none"
    /\ stack' = [stack EXCEPT ![Len(stack)].pc = "loop"]
    /\ UNCHANGED <<stdin, lines, stdin_grid, GRID, last, pc, out, status,
                   searched>>

\* the loop is exhausted: return False
Exhausted ==
    /\ stack # <<>>
    /\ Top.pc = "loop"
    /\ Top.todo = <<>>
    /\ ret' = "False"
    /\ last' = Top
    /\ stack' = Pop
    /\ UNCHANGED <<stdin, lines, stdin_grid, GRID, work, pc, out, status,
                   searched>>

\* main: the outcome of solve(work) is reported and main returns.
Report ==
    /\ pc = "solve"
    /\ stack = <<>>
    /\ ret # "none"
    /\ out' = Append(out, IF ret = "True"
                          THEN "Solved:"
                          ELSE "No solution exists.")
    /\ status' = 0
    /\ pc' = "done"
    /\ UNCHANGED <<stdin, lines, stdin_grid, GRID, work, stack, ret, last,
                   searched>>

Next ==
    \/ ReadLine
    \/ ReadReturn
    \/ UseGrid
    \/ Validate
    \/ Call
    \/ Solved
    \/ DeadEnd
    \/ EnterLoop
    \/ Assign
    \/ Propagate
    \/ Undo
    \/ Exhausted
    \/ Report

Spec == Init /\ [][Next]_vars

\* The program is one sequential thread: a step that can be taken is taken.
FairSpec == Spec /\ WF_vars(Next)

----------------------------------------------------------------------------
(* The vocabulary of the properties, defined on the grid alone: none of    *)
(* these definitions uses an operator of the program.                      *)

Cells == Idx \X Idx

Val(g, p) == g[p[1] + 1][p[2] + 1]

SameRow(p, q) == p[1] = q[1]
SameCol(p, q) == p[2] = q[2]
SameBox(p, q) == (p[1] \div 3 = q[1] \div 3) /\ (p[2] \div 3 = q[2] \div 3)

Peers(p) == {q \in Cells : q # p /\ (SameRow(p, q) \/ SameCol(p, q)
                                       \/ SameBox(p, q))}

PeerMap == [p \in Cells |-> Peers(p)]

Units(Rel(_, _)) == {{q \in Cells : Rel(p, q)} : p \in Cells}

Rows == Units(SameRow)
Cols == Units(SameCol)
Boxes == Units(SameBox)

\* Two cells of one unit hold the same nonzero value.
DupIn(g, units) ==
    \E U \in units : \E p \in U :
        Val(g, p) # 0 /\ \E q \in U : q # p /\ Val(g, q) = Val(g, p)

RowDup(g) == DupIn(g, Rows)
ColDup(g) == DupIn(g, Cols)
BoxDup(g) == DupIn(g, Boxes)

HasDuplicate(g) == RowDup(g) \/ ColDup(g) \/ BoxDup(g)

EmptyCells(g) == {p \in Cells : Val(g, p) = 0}

\* Every row, column and box holds each of 1..9 exactly once.
IsSolved(g) ==
    /\ \A p \in Cells : Val(g, p) \in 1 .. 9
    /\ ~HasDuplicate(g)

\* The digits that may be placed at the empty cell p.
Placeable(g, p) == {d \in 1 .. 9 : \A q \in PeerMap[p] : Val(g, q) # d}

Before(p, q) == p[1] < q[1] \/ (p[1] = q[1] /\ p[2] < q[2])

\* Some assignment of digits to the empty cells of g leaves no duplicate:
\* the cells are filled in row-major order, each with every digit that does
\* not repeat a value of its row, column or box.
CompletableFrom[g \in Seq(Seq(Int)), k \in 0 .. 81] ==
    IF k = 81
    THEN TRUE
    ELSE LET p == <<k \div 9, k % 9>>
         IN  IF Val(g, p) # 0
             THEN CompletableFrom[g, k + 1]
             ELSE \E d \in Placeable(g, p) :
                     CompletableFrom[
                        [g EXCEPT ![p[1] + 1] =
                             [g[p[1] + 1] EXCEPT ![p[2] + 1] = d]], k + 1]

Completable(g) == ~HasDuplicate(g) /\ CompletableFrom[g, 0]

Rejected == out = <<"Invalid puzzle (duplicates in row/col/box).">>

InRange(g) == \A p \in Cells : Val(g, p) \in 0 .. 9

----------------------------------------------------------------------------
(* The properties.                                                         *)

\* C1 (soundness): whenever a solve call has returned True, the grid holds
\* no 0 and every row, column and box holds each of 1..9 exactly once.
C1_Soundness == ret = "True" => IsSolved(work)

\* C1 for the grids whose values all lie in 0..9.
C1_SoundnessInRange == (ret = "True" /\ InRange(GRID)) => IsSolved(work)

\* A grid with every value in 0..9 has been solved after backtracking.
C1_SolvedInRange ==
    /\ pc = "done"
    /\ ret = "True"
    /\ InRange(GRID)
    /\ last.tried >= 2

\* solve has returned True on a grid that holds a value outside 1..9.
C1_SolvedOutOfRange ==
    /\ pc = "done"
    /\ ret = "True"
    /\ out = <<"Input:", "Solved:">>
    /\ ~IsSolved(work)

\* C7 (parser output domain): every grid read_grid_from_stdin returns is a
\* 9x9 matrix of values in 0..9.
C7_ParserDomain ==
    (pc # "read" /\ stdin_grid # {}) =>
        LET g == TheOne(stdin_grid)
        IN  /\ Len(g) = 9
            /\ \A r \in 1 .. Len(g) :
                  /\ Len(g[r]) = 9
                  /\ \A c \in 1 .. Len(g[r]) : g[r][c] \in 0 .. 9

\* read_grid_from_stdin has returned a grid with a value outside 0..9.
C7_OutOfRangeReturned ==
    /\ pc # "read"
    /\ stdin_grid # {}
    /\ ~InRange(TheOne(stdin_grid))

\* C7 without the range: every grid returned has 9 rows of 9 integers.
C7_ParserShape ==
    (pc # "read" /\ stdin_grid # {}) =>
        LET g == TheOne(stdin_grid)
        IN  /\ Len(g) = 9
            /\ \A r \in 1 .. Len(g) :
                  Len(g[r]) = 9 /\ \A c \in 1 .. 9 : g[r][c] \in Int

\* C4 (validator correctness): is_valid_grid rejects exactly the grids with
\* a duplicate nonzero value in a row, a column or a box, and the grid it
\* was given is the grid main selected, unchanged.
C4_ValidatorCorrect ==
    pc \in {"solve", "done"} =>
        /\ Rejected <=> HasDuplicate(GRID)
        /\ GRID = IF stdin_grid # {} THEN TheOne(stdin_grid) ELSE DefaultGRID

\* A grid whose only duplicate lies in a box has been rejected.
C4_BoxOnlyRejected ==
    /\ pc = "done"
    /\ Rejected
    /\ BoxDup(GRID)
    /\ ~RowDup(GRID)
    /\ ~ColDup(GRID)

\* C5 (outcome classification): a rejected grid is reported, the exit
\* status is nonzero and solve is never called; an accepted grid on which
\* solve returns False is reported as without solution, with exit status 0.
C5_Outcomes ==
    /\ pc # "done" => status = 0 - 1
    /\ pc = "done" =>
          IF HasDuplicate(GRID)
          THEN Rejected /\ status = 1 /\ ~searched
          ELSE /\ status = 0
               /\ searched
               /\ ret = "False" => out = <<"Input:", "No solution exists.">>
               /\ ret = "True" => out = <<"Input:", "Solved:">>

\* The search has failed after trying digits, and main has reported it.
C5_NoSolutionReported ==
    /\ pc = "done"
    /\ ret = "False"
    /\ last.tried >= 1
    /\ status = 0

\* C3 (restoration on failure): when a solve call, outermost or nested, has
\* returned False, the grid equals the grid at the entry of that call.
C3_Restoration == ret = "False" => work = last.entry

\* A nested call has returned False after assigning two or more digits.
C3_NestedFailure ==
    /\ ret = "False"
    /\ stack # <<>>
    /\ last.tried >= 2

\* C10 (mid-search consistency): from a grid without duplicate, every grid
\* of the search, after every assignment and every undo, is without
\* duplicate.
C10_MidSearchConsistent ==
    (work # <<>> /\ HasDuplicate(work)) => HasDuplicate(GRID)

\* Two levels down, a digit has been undone and the loop goes on.
C10_AfterNestedUndo ==
    /\ Len(stack) >= 2
    /\ Top.pc = "loop"
    /\ Top.tried >= 1
    /\ Top.todo # <<>>

\* C2 (completeness): solve never returns False on a grid that is_valid_grid
\* has accepted and that has a legal completion.
C2_Completeness ==
    (pc = "done" /\ searched /\ ret = "False") => ~Completable(GRID)

\* The outermost call, on a completable grid, has returned True after the
\* first digit it tried had failed and was undone.
C2_SolvedAfterBacktrack ==
    /\ ret = "True"
    /\ last.tried >= 2
    /\ last.entry = GRID
    /\ Completable(GRID)

\* The sizes of the candidate sets of the empty cells of g.
Sizes(g) == [q \in EmptyCells(g) |-> Cardinality(Placeable(g, q))]

\* nxt is None exactly when g has no empty cell; otherwise it names an empty
\* cell together with the digits placeable there.
ReturnsCell(g, nxt) ==
    /\ (nxt = {}) <=> (EmptyCells(g) = {})
    /\ nxt # {} =>
          LET t == TheOne(nxt)
          IN  /\ <<t[1], t[2]>> \in EmptyCells(g)
              /\ t[3] = Placeable(g, <<t[1], t[2]>>)

\* p is the row-major first of the empty cells of minimal size.
MinimalFirst(g, p) ==
    LET size == Sizes(g)
    IN  \A q \in EmptyCells(g) :
           /\ size[q] >= size[p]
           /\ size[q] = size[p] => ~Before(q, p)

CluesKept ==
    work # <<>> =>
        \A p \in Cells : Val(GRID, p) # 0 => Val(work, p) = Val(GRID, p)

\* A step of the search that changes the grid changes only the cell the
\* frame on top selected, and that cell was empty when it was selected.
WritesSelectedCell ==
    (pc = "solve" /\ work' # work) =>
        /\ stack # <<>>
        /\ Top.nxt # {}
        /\ Val(Top.entry, <<CellR(Top), CellC(Top)>>) = 0
        /\ \A p \in Cells \ {<<CellR(Top), CellC(Top)>>} :
              Val(work', p) = Val(work, p)

\* C8 (frame discipline): every write of the search goes to the cell its
\* frame selected, which was empty then, and no clue is ever changed.
C8_FrameDiscipline == [][WritesSelectedCell]_vars /\ []CluesKept

\* The search has succeeded after the outermost frame undid its first digit.
C8_SolvedAfterUndo ==
    /\ pc = "done"
    /\ ret = "True"
    /\ last.tried >= 2
    /\ work # GRID

NumEmpty(g) == Cardinality(EmptyCells(g))

\* The frames that hold an assignment are at most as many as the empty cells
\* of the input, and every nested call starts with fewer empty cells than
\* its caller.
DepthBounded ==
    /\ Cardinality({i \in 1 .. Len(stack) : stack[i].pc = "rec"})
          <= NumEmpty(GRID)
    /\ Cardinality({i \in 1 .. Len(stack) : stack[i].pc = "rec"}) <= 81
    /\ \A i \in 2 .. Len(stack) :
          NumEmpty(stack[i].entry) < NumEmpty(stack[i - 1].entry)

\* C9 (termination and depth bound): the program ends, and the depth of the
\* search stays within the number of empty cells of the input.
C9_TerminationDepth == <>(pc = "done") /\ []DepthBounded

\* The deepest call: every cell that was empty holds an assignment.
C9_FullDepth ==
    /\ stack # <<>>
    /\ Top.pc = "mrv"
    /\ Top.nxt = {}
    /\ Len(stack) = NumEmpty(GRID) + 1
    /\ Len(stack) >= 40

====
